---- MODULE Spec2Model ----
(***************************************************************************)
(* Model of the commitment computation layer (mpts/deoxys/lib.rs):         *)
(*   build_commitment_state_diff, calculate_state_root, update_state_root  *)
(*   and calculate_tx_and_event_commitments.                               *)
(*                                                                         *)
(* The calling thread's position is pc.  The loops of                      *)
(* build_commitment_state_diff consume the raw state update one entry per  *)
(* step; state_update records the entries the iterators have yielded so    *)
(* far.  The two closures handed to rayon::join are jobs "a" and "b",      *)
(* which complete in either order.                                         *)
(***************************************************************************)
EXTENDS Integers, Sequences, FiniteSets

VARIABLES pc, call, state_update, commitment_state_diff, contract_address,
          storage_map, jobs, args, hash_calls, ret, panic_msg

vars == <<pc, call, state_update, commitment_state_diff, contract_address,
          storage_map, jobs, args, hash_calls, ret, panic_msg>>

(***************************************************************************)
(* Bounds                                                                  *)
(***************************************************************************)
\* Largest field element of the scaled-down prime field.
MaxFelt == 2
\* Entries (items, storage groups and storage entries) one raw state update holds.
MaxItems == 3
\* Length of the transaction list and of the event list.
MaxLen == 1
\* Largest block number.
MaxBlock == 1

FieldElement == 0..MaxFelt
\* Largest value a fixed-width domain type accepts.
DomainMax == MaxFelt - 1

(***************************************************************************)
(* Field elements and domain types                                         *)
(***************************************************************************)
FieldElement_ZERO == 0

\* Does the field element fit the domain type?
Fits(ty, fe) == fe <= DomainMax

\* T::from_field_element(fe): the field element narrowed into domain type ty.
FromFieldElement(ty, fe) == [type |-> ty, felt |-> fe]

(***************************************************************************)
(* IndexMap: a sequence of <<key, value>> pairs with unique keys, in       *)
(* insertion order.                                                        *)
(***************************************************************************)
IndexMap_new == << >>

IndexMapKeys(m) == {m[i][1] : i \in 1..Len(m)}

IndexMapGet(m, k) == (CHOOSE i \in 1..Len(m) : m[i][1] = k)

\* insert: a key already present keeps its position and gets the new value.
IndexMapInsert(m, k, v) ==
    IF k \in IndexMapKeys(m)
    THEN [m EXCEPT ![IndexMapGet(m, k)] = <<k, v>>]
    ELSE Append(m, <<k, v>>)

\* The mapping an IndexMap holds, as a function from its keys.
AsFunction(m) == [k \in IndexMapKeys(m) |-> m[IndexMapGet(m, k)][2]]

None == << >>
Some(v) == <<v>>

EmptyStateUpdate ==
    [deployed_contracts |-> << >>, replaced_classes |-> << >>,
     declared_classes |-> << >>, nonces |-> << >>, storage_diffs |-> << >>]

CommitmentStateDiff_new ==
    [address_to_class_hash |-> IndexMap_new,
     address_to_nonce |-> IndexMap_new,
     storage_updates |-> IndexMap_new,
     class_hash_to_compiled_class_hash |-> IndexMap_new]

\* Number of entries the iterators have yielded so far.
RECURSIVE SumEntries(_)
SumEntries(groups) ==
    IF groups = << >> THEN 0
    ELSE 1 + Len(groups[1].storage_entries) + SumEntries(Tail(groups))

Items(su) ==
    Len(su.deployed_contracts) + Len(su.replaced_classes)
    + Len(su.declared_classes) + Len(su.nonces) + SumEntries(su.storage_diffs)

\* No closure has been handed to rayon::join.
NoJobs == << >>
NoArgs == << >>

Init ==
    /\ pc = "idle"
    /\ call = "none"
    /\ state_update = EmptyStateUpdate
    /\ commitment_state_diff = CommitmentStateDiff_new
    /\ contract_address = None
    /\ storage_map = IndexMap_new
    /\ jobs = NoJobs
    /\ args = NoArgs
    /\ hash_calls = << >>
    /\ ret = None
    /\ panic_msg = None

(***************************************************************************)
(* build_commitment_state_diff                                             *)
(***************************************************************************)
Panic(msg) ==
    /\ pc' = "panicked"
    /\ panic_msg' = Some(msg)
    /\ ret' = None

Call_build_commitment_state_diff ==
    /\ pc = "idle"
    /\ pc' = "deployed_contracts"
    /\ call' = "build_commitment_state_diff"
    /\ commitment_state_diff' = CommitmentStateDiff_new
    /\ UNCHANGED <<state_update, contract_address, storage_map, jobs, args,
                   hash_calls, ret, panic_msg>>

\* Variant: the class hash supplied for the zero address is kept.
DeployedClassHash_kept(address, class_hash) == FromFieldElement("ClassHash", class_hash)

\* The class hash stored for a deployed contract.
DeployedClassHash(address, class_hash) ==
    IF address = FromFieldElement("ContractAddress", FieldElement_ZERO)
    THEN FromFieldElement("ClassHash", FieldElement_ZERO)
    ELSE FromFieldElement("ClassHash", class_hash)

\* One iteration of the loop over deployed_contracts.
DeployedContractStep ==
    /\ pc = "deployed_contracts"
    /\ Items(state_update) < MaxItems
    /\ \E address \in FieldElement, class_hash \in FieldElement :
        /\ state_update' = [state_update EXCEPT !.deployed_contracts =
                               Append(@, [address |-> address, class_hash |-> class_hash])]
        /\ IF /\ Fits("ContractAddress", address)
              /\ \/ address = FieldElement_ZERO
                 \/ Fits("ClassHash", class_hash)
           THEN /\ commitment_state_diff' =
                      [commitment_state_diff EXCEPT !.address_to_class_hash =
                          IndexMapInsert(@, FromFieldElement("ContractAddress", address),
                              DeployedClassHash(FromFieldElement("ContractAddress", address),
                                                class_hash))]
                /\ UNCHANGED <<pc, ret, panic_msg>>
           ELSE /\ Panic("from_field_element")
                /\ UNCHANGED commitment_state_diff
    /\ UNCHANGED <<call, contract_address, storage_map, jobs, args, hash_calls>>

\* Variant: the zero-address special case is applied to replaced classes too.
ReplacedClassHash_forced(address, class_hash) ==
    IF address = FromFieldElement("ContractAddress", FieldElement_ZERO)
    THEN FromFieldElement("ClassHash", FieldElement_ZERO)
    ELSE FromFieldElement("ClassHash", class_hash)

\* The class hash stored for a replaced class.
ReplacedClassHash(address, class_hash) == FromFieldElement("ClassHash", class_hash)

\* One iteration of the loop over replaced_classes.
ReplacedClassStep ==
    /\ pc \in {"deployed_contracts", "replaced_classes"}
    /\ Items(state_update) < MaxItems
    /\ \E address \in FieldElement, class_hash \in FieldElement :
        /\ state_update' = [state_update EXCEPT !.replaced_classes =
                               Append(@, [contract_address |-> address, class_hash |-> class_hash])]
        /\ IF Fits("ContractAddress", address) /\ Fits("ClassHash", class_hash)
           THEN /\ commitment_state_diff' =
                      [commitment_state_diff EXCEPT !.address_to_class_hash =
                          IndexMapInsert(@, FromFieldElement("ContractAddress", address),
                              ReplacedClassHash(FromFieldElement("ContractAddress", address),
                                                class_hash))]
                /\ pc' = "replaced_classes"
                /\ UNCHANGED <<ret, panic_msg>>
           ELSE /\ Panic("from_field_element")
                /\ UNCHANGED commitment_state_diff
    /\ UNCHANGED <<call, contract_address, storage_map, jobs, args, hash_calls>>

\* One iteration of the loop over declared_classes.
DeclaredClassStep ==
    /\ pc \in {"deployed_contracts", "replaced_classes", "declared_classes"}
    /\ Items(state_update) < MaxItems
    /\ \E class_hash \in FieldElement, compiled_class_hash \in FieldElement :
        /\ state_update' = [state_update EXCEPT !.declared_classes =
                               Append(@, [class_hash |-> class_hash,
                                          compiled_class_hash |-> compiled_class_hash])]
        /\ IF Fits("ClassHash", class_hash) /\ Fits("CompiledClassHash", compiled_class_hash)
           THEN /\ commitment_state_diff' =
                      [commitment_state_diff EXCEPT !.class_hash_to_compiled_class_hash =
                          IndexMapInsert(@, FromFieldElement("ClassHash", class_hash),
                              FromFieldElement("CompiledClassHash", compiled_class_hash))]
                /\ pc' = "declared_classes"
                /\ UNCHANGED <<ret, panic_msg>>
           ELSE /\ Panic("from_field_element")
                /\ UNCHANGED commitment_state_diff
    /\ UNCHANGED <<call, contract_address, storage_map, jobs, args, hash_calls>>

\* One iteration of the loop over nonces.
NonceUpdateStep ==
    /\ pc \in {"deployed_contracts", "replaced_classes", "declared_classes", "nonces"}
    /\ Items(state_update) < MaxItems
    /\ \E address \in FieldElement, nonce \in FieldElement :
        /\ state_update' = [state_update EXCEPT !.nonces =
                               Append(@, [contract_address |-> address, nonce |-> nonce])]
        /\ IF Fits("ContractAddress", address) /\ Fits("Nonce", nonce)
           THEN /\ commitment_state_diff' =
                      [commitment_state_diff EXCEPT !.address_to_nonce =
                          IndexMapInsert(@, FromFieldElement("ContractAddress", address),
                              FromFieldElement("Nonce", nonce))]
                /\ pc' = "nonces"
                /\ UNCHANGED <<ret, panic_msg>>
           ELSE /\ Panic("from_field_element")
                /\ UNCHANGED commitment_state_diff
    /\ UNCHANGED <<call, contract_address, storage_map, jobs, args, hash_calls>>

\* Head of one iteration of the loop over storage_diffs: the address is
\* narrowed and a fresh storage_map created.
StorageDiffBegin ==
    /\ pc \in {"deployed_contracts", "replaced_classes", "declared_classes", "nonces",
               "storage_diffs"}
    /\ Items(state_update) < MaxItems
    /\ \E address \in FieldElement :
        /\ state_update' = [state_update EXCEPT !.storage_diffs =
                               Append(@, [address |-> address, storage_entries |-> << >>])]
        /\ IF Fits("ContractAddress", address)
           THEN /\ contract_address' = Some(FromFieldElement("ContractAddress", address))
                /\ storage_map' = IndexMap_new
                /\ pc' = "storage_entries"
                /\ UNCHANGED <<ret, panic_msg>>
           ELSE /\ Panic("from_field_element")
                /\ UNCHANGED <<contract_address, storage_map>>
    /\ UNCHANGED <<call, commitment_state_diff, jobs, args, hash_calls>>

\* Variant: an entry that does not narrow is skipped and the loop goes on.
StorageEntryStep_skip ==
    /\ pc = "storage_entries"
    /\ Items(state_update) < MaxItems
    /\ \E key \in FieldElement, value \in FieldElement :
        /\ state_update' = [state_update EXCEPT
                               !.storage_diffs[Len(state_update.storage_diffs)].storage_entries =
                                   Append(@, [key |-> key, value |-> value])]
        /\ IF Fits("StorageKey", key) /\ Fits("StarkFelt", value)
           THEN storage_map' = IndexMapInsert(storage_map,
                                   FromFieldElement("StorageKey", key),
                                   FromFieldElement("StarkFelt", value))
           ELSE UNCHANGED storage_map
        /\ UNCHANGED <<pc, ret, panic_msg>>
    /\ UNCHANGED <<call, commitment_state_diff, contract_address, jobs, args, hash_calls>>

\* One iteration of the inner loop over storage_entries.
StorageEntryStep ==
    /\ pc = "storage_entries"
    /\ Items(state_update) < MaxItems
    /\ \E key \in FieldElement, value \in FieldElement :
        /\ state_update' = [state_update EXCEPT
                               !.storage_diffs[Len(state_update.storage_diffs)].storage_entries =
                                   Append(@, [key |-> key, value |-> value])]
        /\ IF Fits("StorageKey", key) /\ Fits("StarkFelt", value)
           THEN /\ storage_map' = IndexMapInsert(storage_map,
                                      FromFieldElement("StorageKey", key),
                                      FromFieldElement("StarkFelt", value))
                /\ UNCHANGED <<pc, ret, panic_msg>>
           ELSE /\ Panic("from_field_element")
                /\ UNCHANGED storage_map
    /\ UNCHANGED <<call, commitment_state_diff, contract_address, jobs, args, hash_calls>>

RECURSIVE InsertAll(_, _)
InsertAll(m, pairs) ==
    IF pairs = << >> THEN m
    ELSE InsertAll(IndexMapInsert(m, pairs[1][1], pairs[1][2]), Tail(pairs))

\* Variant: the per-contract mapping is merged into the one already stored.
InsertStorageMap_union(storage_updates, address, map) ==
    IF address \in IndexMapKeys(storage_updates)
    THEN IndexMapInsert(storage_updates, address,
             InsertAll(storage_updates[IndexMapGet(storage_updates, address)][2], map))
    ELSE IndexMapInsert(storage_updates, address, map)

\* The storage_updates mapping after the per-contract mapping is inserted.
InsertStorageMap(storage_updates, address, map) == IndexMapInsert(storage_updates, address, map)

\* Tail of one iteration of the loop over storage_diffs.
StorageDiffEnd ==
    /\ pc = "storage_entries"
    /\ commitment_state_diff' =
           [commitment_state_diff EXCEPT !.storage_updates =
               InsertStorageMap(@, contract_address[1], storage_map)]
    /\ pc' = "storage_diffs"
    /\ UNCHANGED <<call, state_update, contract_address, storage_map, jobs, args,
                   hash_calls, ret, panic_msg>>

Return_build_commitment_state_diff ==
    /\ pc \in {"deployed_contracts", "replaced_classes", "declared_classes", "nonces",
               "storage_diffs"}
    /\ ret' = Some(commitment_state_diff)
    /\ pc' = "returned"
    /\ UNCHANGED <<call, state_update, commitment_state_diff, contract_address,
                   storage_map, jobs, args, hash_calls, panic_msg>>

build_commitment_state_diff ==
    \/ Call_build_commitment_state_diff
    \/ DeployedContractStep
    \/ ReplacedClassStep
    \/ DeclaredClassStep
    \/ NonceUpdateStep
    \/ StorageDiffBegin
    \/ StorageEntryStep
    \/ StorageDiffEnd
    \/ Return_build_commitment_state_diff

(***************************************************************************)
(* calculate_state_root                                                    *)
(***************************************************************************)
\* A Felt252Wrapper holding field element fe.
Felt252Wrapper(fe) == [felt |-> fe]
Felt252Wrapper_ZERO == Felt252Wrapper(FieldElement_ZERO)

\* Felt252Wrapper::try_from("STARKNET_STATE_V0".as_bytes()).unwrap()
starknet_state_prefix == [bytes |-> "STARKNET_STATE_V0"]

\* H::compute_hash_on_elements: a collision-free digest of the sequence.
compute_hash_on_elements(elements) == [poseidon |-> elements]

TrieRoot == {Felt252Wrapper(fe) : fe \in FieldElement}

\* Variant: the hash is taken whatever the classes trie root is.
calculate_state_root_always_hash(contracts_trie_root, classes_trie_root) ==
    LET elements == <<starknet_state_prefix, contracts_trie_root, classes_trie_root>>
    IN  [value |-> compute_hash_on_elements(elements), hashed |-> <<elements>>]

\* Variant: the two roots are hashed in the other order.
calculate_state_root_swapped(contracts_trie_root, classes_trie_root) ==
    IF classes_trie_root = Felt252Wrapper_ZERO
    THEN [value |-> contracts_trie_root, hashed |-> << >>]
    ELSE LET elements == <<starknet_state_prefix, classes_trie_root, contracts_trie_root>>
         IN  [value |-> compute_hash_on_elements(elements), hashed |-> <<elements>>]

\* The value returned, and the sequences the hash primitive was invoked on.
calculate_state_root(contracts_trie_root, classes_trie_root) ==
    IF classes_trie_root = Felt252Wrapper_ZERO
    THEN [value |-> contracts_trie_root, hashed |-> << >>]
    ELSE LET elements == <<starknet_state_prefix, contracts_trie_root, classes_trie_root>>
         IN  [value |-> compute_hash_on_elements(elements), hashed |-> <<elements>>]

Call_calculate_state_root ==
    /\ pc = "idle"
    /\ \E contracts_trie_root \in TrieRoot, classes_trie_root \in TrieRoot :
        LET r == calculate_state_root(contracts_trie_root, classes_trie_root)
        IN  /\ args' = [contracts_trie_root |-> contracts_trie_root,
                        classes_trie_root |-> classes_trie_root]
            /\ ret' = Some(r.value)
            /\ hash_calls' = hash_calls \o r.hashed
    /\ call' = "calculate_state_root"
    /\ pc' = "returned"
    /\ UNCHANGED <<state_update, commitment_state_diff, contract_address, storage_map,
                   jobs, panic_msg>>

(***************************************************************************)
(* rayon::join and Result::expect                                          *)
(***************************************************************************)
Ok(v) == [ok |-> v]
Err(e) == [err |-> e]
IsOk(result) == "ok" \in DOMAIN result

\* Variant: result.unwrap_or_default().
Expect_or_default(result, msg) ==
    [value |-> IF IsOk(result) THEN result.ok ELSE [felt |-> FieldElement_ZERO]]

\* result.expect(msg): the value, or a panic carrying msg.
Expect(result, msg) ==
    IF IsOk(result) THEN [value |-> result.ok] ELSE [panic |-> msg]

IsPanic(outcome) == "panic" \in DOMAIN outcome

\* rayon::join(a, b) starts both closures.
Fork == [j \in {"a", "b"} |-> None]

\* Both closures have completed.
Joined(js) == \A j \in DOMAIN js : js[j] # None

\* Variant: the two result slots are exchanged.
JoinPair_exchanged(js) == <<js["b"][1], js["a"][1]>>

\* The pair rayon::join returns: closure a's result first, closure b's second.
JoinPair(js) == <<js["a"][1], js["b"][1]>>

(***************************************************************************)
(* update_state_root                                                       *)
(***************************************************************************)
\* What the trie engine answers: a root, or an error.
TrieResult == {Ok(r) : r \in TrieRoot} \cup {Err("trie")}

Call_update_state_root ==
    /\ pc = "idle"
    /\ \E block_number \in 0..MaxBlock, contract \in TrieResult, class \in TrieResult :
        args' = [block_number |-> block_number,
                 contract_trie_root |-> contract, class_trie_root |-> class]
    /\ jobs' = Fork
    /\ call' = "update_state_root"
    /\ pc' = "join"
    /\ UNCHANGED <<state_update, commitment_state_diff, contract_address, storage_map,
                   hash_calls, ret, panic_msg>>

\* Closure a: contract_trie_root(&csd, block_number).expect(..)
contract_trie_root_job ==
    /\ call = "update_state_root"
    /\ pc = "join"
    /\ jobs["a"] = None
    /\ jobs' = [jobs EXCEPT !["a"] =
                   Some(Expect(args.contract_trie_root, "Failed to compute contract root"))]
    /\ UNCHANGED <<pc, call, state_update, commitment_state_diff, contract_address,
                   storage_map, args, hash_calls, ret, panic_msg>>

\* Closure b: class_trie_root(&csd, block_number).expect(..)
class_trie_root_job ==
    /\ call = "update_state_root"
    /\ pc = "join"
    /\ jobs["b"] = None
    /\ jobs' = [jobs EXCEPT !["b"] =
                   Some(Expect(args.class_trie_root, "Failed to compute class root"))]
    /\ UNCHANGED <<pc, call, state_update, commitment_state_diff, contract_address,
                   storage_map, args, hash_calls, ret, panic_msg>>

\* Variant: the caller goes on as soon as closure a has completed, with the
\* zero root standing for a classes trie root that is still missing.
Join_update_state_root_early ==
    /\ call = "update_state_root"
    /\ pc = "join"
    /\ jobs["a"] # None
    /\ LET a == jobs["a"][1]
           b == IF jobs["b"] # None THEN jobs["b"][1] ELSE [value |-> [felt |-> FieldElement_ZERO]]
       IN  IF IsPanic(a) THEN Panic(a.panic) /\ UNCHANGED hash_calls
           ELSE IF IsPanic(b) THEN Panic(b.panic) /\ UNCHANGED hash_calls
           ELSE LET r == calculate_state_root(a.value, b.value)
                IN  /\ ret' = Some(r.value)
                    /\ hash_calls' = hash_calls \o r.hashed
                    /\ pc' = "returned"
                    /\ UNCHANGED panic_msg
    /\ UNCHANGED <<call, state_update, commitment_state_diff, contract_address,
                   storage_map, jobs, args>>

\* rayon::join returns or resumes the panic of a closure (closure a's first),
\* then calculate_state_root combines the two roots.
Join_update_state_root ==
    /\ call = "update_state_root"
    /\ pc = "join"
    /\ Joined(jobs)
    /\ LET pair == JoinPair(jobs)
       IN  IF IsPanic(pair[1]) THEN Panic(pair[1].panic) /\ UNCHANGED hash_calls
           ELSE IF IsPanic(pair[2]) THEN Panic(pair[2].panic) /\ UNCHANGED hash_calls
           ELSE LET r == calculate_state_root(pair[1].value, pair[2].value)
                IN  /\ ret' = Some(r.value)
                    /\ hash_calls' = hash_calls \o r.hashed
                    /\ pc' = "returned"
                    /\ UNCHANGED panic_msg
    /\ UNCHANGED <<call, state_update, commitment_state_diff, contract_address,
                   storage_map, jobs, args>>

update_state_root ==
    \/ Call_update_state_root
    \/ contract_trie_root_job
    \/ class_trie_root_job
    \/ Join_update_state_root

(***************************************************************************)
(* calculate_tx_and_event_commitments                                      *)
(***************************************************************************)
Transaction == {"tx", "malformed_tx"}
Event == {"event", "malformed_event"}

SeqsUpTo(S, n) == UNION {[1..k -> S] : k \in 0..n}

\* The transaction hash-tree builder: a digest of the list, or an error.
memory_transaction_commitment(transactions, chain_id, block_number) ==
    IF \E i \in 1..Len(transactions) : transactions[i] = "malformed_tx"
    THEN Err("transaction")
    ELSE Ok([tx_commitment |-> <<transactions, chain_id, block_number>>])

\* The event hash-tree builder: a digest of the list, or an error.
memory_event_commitment(events) ==
    IF \E i \in 1..Len(events) : events[i] = "malformed_event"
    THEN Err("event")
    ELSE Ok([event_commitment |-> events])

Call_calculate_tx_and_event_commitments ==
    /\ pc = "idle"
    /\ \E transactions \in SeqsUpTo(Transaction, MaxLen), events \in SeqsUpTo(Event, MaxLen),
          chain_id \in FieldElement, block_number \in 0..MaxBlock :
        args' = [transactions |-> transactions, events |-> events,
                 chain_id |-> Felt252Wrapper(chain_id), block_number |-> block_number]
    /\ jobs' = Fork
    /\ call' = "calculate_tx_and_event_commitments"
    /\ pc' = "join"
    /\ UNCHANGED <<state_update, commitment_state_diff, contract_address, storage_map,
                   hash_calls, ret, panic_msg>>

\* Closure a: memory_transaction_commitment(transactions, chain_id, block_number)
transaction_commitment_job ==
    /\ call = "calculate_tx_and_event_commitments"
    /\ pc = "join"
    /\ jobs["a"] = None
    /\ jobs' = [jobs EXCEPT !["a"] =
                   Some(memory_transaction_commitment(args.transactions, args.chain_id,
                                                      args.block_number))]
    /\ UNCHANGED <<pc, call, state_update, commitment_state_diff, contract_address,
                   storage_map, args, hash_calls, ret, panic_msg>>

\* Closure b: memory_event_commitment(events)
event_commitment_job ==
    /\ call = "calculate_tx_and_event_commitments"
    /\ pc = "join"
    /\ jobs["b"] = None
    /\ jobs' = [jobs EXCEPT !["b"] = Some(memory_event_commitment(args.events))]
    /\ UNCHANGED <<pc, call, state_update, commitment_state_diff, contract_address,
                   storage_map, args, hash_calls, ret, panic_msg>>

\* Variant: only the transaction commitment is unwrapped with expect, the
\* event commitment with unwrap_or_default.
Join_calculate_tx_and_event_commitments_lenient ==
    /\ call = "calculate_tx_and_event_commitments"
    /\ pc = "join"
    /\ Joined(jobs)
    /\ LET pair == JoinPair(jobs)
           commitment_tx == Expect(pair[1], "Failed to calculate transaction commitment")
           commitment_event == IF IsOk(pair[2]) THEN pair[2].ok
                               ELSE [felt |-> FieldElement_ZERO]
       IN  IF IsPanic(commitment_tx) THEN Panic(commitment_tx.panic)
           ELSE /\ ret' = Some(<<commitment_tx.value, commitment_event>>)
                /\ pc' = "returned"
                /\ UNCHANGED panic_msg
    /\ UNCHANGED <<call, state_update, commitment_state_diff, contract_address,
                   storage_map, jobs, args, hash_calls>>

\* rayon::join returns the pair; both results are unwrapped with expect,
\* the transaction commitment first.
Join_calculate_tx_and_event_commitments ==
    /\ call = "calculate_tx_and_event_commitments"
    /\ pc = "join"
    /\ Joined(jobs)
    /\ LET pair == JoinPair(jobs)
           commitment_tx == Expect(pair[1], "Failed to calculate transaction commitment")
           commitment_event == Expect(pair[2], "Failed to calculate event commitment")
       IN  IF IsPanic(commitment_tx) THEN Panic(commitment_tx.panic)
           ELSE IF IsPanic(commitment_event) THEN Panic(commitment_event.panic)
           ELSE /\ ret' = Some(<<commitment_tx.value, commitment_event.value>>)
                /\ pc' = "returned"
                /\ UNCHANGED panic_msg
    /\ UNCHANGED <<call, state_update, commitment_state_diff, contract_address,
                   storage_map, jobs, args, hash_calls>>

calculate_tx_and_event_commitments ==
    \/ Call_calculate_tx_and_event_commitments
    \/ transaction_commitment_job
    \/ event_commitment_job
    \/ Join_calculate_tx_and_event_commitments

Next ==
    \/ build_commitment_state_diff
    \/ Call_calculate_state_root
    \/ update_state_root
    \/ calculate_tx_and_event_commitments

Spec == Init /\ [][Next]_vars

(***************************************************************************)
(* Properties                                                              *)
(***************************************************************************)
Returned(f) == call = f /\ pc = "returned"

ZeroAddress == FromFieldElement("ContractAddress", FieldElement_ZERO)
ZeroClassHash == FromFieldElement("ClassHash", FieldElement_ZERO)

\* The largest index of seq at which P holds.
LastIndex(seq, P(_)) ==
    CHOOSE i \in 1..Len(seq) : P(seq[i]) /\ \A j \in (i+1)..Len(seq) : ~P(seq[j])

\* C1: for every contracts trie root r, calculate_state_root(r, ZERO) returns
\* r itself and the hash primitive is not invoked, whether the function is
\* called directly or from update_state_root.
C1_ZeroClassesRootReturnsContractsRoot ==
    /\ (Returned("calculate_state_root") /\ args.classes_trie_root = Felt252Wrapper_ZERO)
          => (ret = Some(args.contracts_trie_root) /\ hash_calls = << >>)
    /\ (Returned("update_state_root") /\ args.class_trie_root = Ok(Felt252Wrapper_ZERO))
          => (ret = Some(args.contract_trie_root.ok) /\ hash_calls = << >>)

C1_Witness ==
    /\ Returned("calculate_state_root")
    /\ args.classes_trie_root = Felt252Wrapper_ZERO
    /\ args.contracts_trie_root = Felt252Wrapper(1)
    /\ ret = Some(Felt252Wrapper(1))

\* C2: for a non-zero classes trie root c, calculate_state_root(r, c) is the
\* hash primitive applied once, to exactly the sequence (tag, r, c) in that order.
C2_StateRootIsHashOfTagContractsClasses ==
    (Returned("calculate_state_root") /\ args.classes_trie_root # Felt252Wrapper_ZERO)
       => LET elements == <<[bytes |-> "STARKNET_STATE_V0"],
                            args.contracts_trie_root, args.classes_trie_root>>
          IN  /\ ret = Some([poseidon |-> elements])
              /\ hash_calls = <<elements>>

C2_Witness ==
    /\ Returned("calculate_state_root")
    /\ args.classes_trie_root # Felt252Wrapper_ZERO
    /\ args.contracts_trie_root # args.classes_trie_root
    /\ Len(hash_calls) = 1

TrieUpdateFails == ~IsOk(args.contract_trie_root) \/ ~IsOk(args.class_trie_root)

\* C3: when at least one of the two trie updates fails, update_state_root
\* returns no state root, and once both closures are through the call has
\* ended in a panic.
C3_NoStateRootWhenATrieUpdateFails ==
    (call = "update_state_root" /\ TrieUpdateFails)
       => /\ ret = None
          /\ pc \in {"join", "panicked"}
          /\ hash_calls = << >>

C3_Witness ==
    /\ call = "update_state_root"
    /\ IsOk(args.contract_trie_root)
    /\ ~IsOk(args.class_trie_root)
    /\ pc = "panicked"
    /\ panic_msg = Some("Failed to compute class root")

DeployedZero(su) ==
    \E i \in 1..Len(su.deployed_contracts) :
        su.deployed_contracts[i].address = FieldElement_ZERO

ReplacedZero(su) ==
    \E i \in 1..Len(su.replaced_classes) :
        su.replaced_classes[i].contract_address = FieldElement_ZERO

ZeroAddressHasZeroClassHash(diff) ==
    /\ ZeroAddress \in IndexMapKeys(diff.address_to_class_hash)
    /\ AsFunction(diff.address_to_class_hash)[ZeroAddress] = ZeroClassHash

\* C4 as stated: a deployed-contract entry for address zero always leaves
\* address zero mapped to class hash zero in the returned diff.
C4_Original ==
    (Returned("build_commitment_state_diff") /\ DeployedZero(state_update))
       => ZeroAddressHasZeroClassHash(ret[1])

\* C4, amended: a deployed-contract entry for address zero leaves address
\* zero mapped to class hash zero in the returned diff, provided no
\* replaced-classes entry of the same update targets address zero.
C4_ZeroAddressForcedUnlessReplaced ==
    (/\ Returned("build_commitment_state_diff")
     /\ DeployedZero(state_update)
     /\ ~ReplacedZero(state_update))
       => ZeroAddressHasZeroClassHash(ret[1])

C4_Witness ==
    /\ Returned("build_commitment_state_diff")
    /\ \E i \in 1..Len(state_update.deployed_contracts) :
          /\ state_update.deployed_contracts[i].address = FieldElement_ZERO
          /\ state_update.deployed_contracts[i].class_hash # FieldElement_ZERO
    /\ ~ReplacedZero(state_update)
    /\ ZeroAddressHasZeroClassHash(ret[1])

\* The mapping one list of storage entries describes: each key with the
\* value of its last entry.
StorageOf(entries) ==
    [k \in {FromFieldElement("StorageKey", entries[i].key) : i \in 1..Len(entries)} |->
        LET HasKey(e) == e.key = k.felt
        IN  FromFieldElement("StarkFelt", entries[LastIndex(entries, HasKey)].value)]

\* C5: the returned diff's storage mapping of an address is exactly the
\* mapping of the last storage-diff entry for that address; keys of earlier
\* entries for the address are absent.
C5_LastStorageDiffWins ==
    Returned("build_commitment_state_diff")
       => \A i \in 1..Len(state_update.storage_diffs) :
             LET address == state_update.storage_diffs[i].address
                 ForAddress(g) == g.address = address
                 last == state_update.storage_diffs[LastIndex(state_update.storage_diffs, ForAddress)]
                 key == FromFieldElement("ContractAddress", address)
             IN  /\ key \in IndexMapKeys(ret[1].storage_updates)
                 /\ AsFunction(AsFunction(ret[1].storage_updates)[key])
                       = StorageOf(last.storage_entries)

C5_Witness ==
    /\ Returned("build_commitment_state_diff")
    /\ \E i, j \in 1..Len(state_update.storage_diffs) :
          /\ i < j
          /\ state_update.storage_diffs[i].address = state_update.storage_diffs[j].address
          /\ \E n \in 1..Len(state_update.storage_diffs[i].storage_entries) :
                \A m \in 1..Len(state_update.storage_diffs[j].storage_entries) :
                   state_update.storage_diffs[i].storage_entries[n].key
                      # state_update.storage_diffs[j].storage_entries[m].key

\* C6: the pair calculate_tx_and_event_commitments returns is (what the
\* transaction builder gives, what the event builder gives) for its
\* arguments, in whichever order the two closures completed.
C6_PairMatchesSequentialCalls ==
    Returned("calculate_tx_and_event_commitments")
       => ret = Some(<<memory_transaction_commitment(args.transactions, args.chain_id,
                                                     args.block_number).ok,
                       memory_event_commitment(args.events).ok>>)

C6_Witness ==
    /\ Returned("calculate_tx_and_event_commitments")
    /\ args.transactions # << >>
    /\ args.events # << >>
    /\ "tx_commitment" \in DOMAIN ret[1][1]
    /\ "event_commitment" \in DOMAIN ret[1][2]

Orchestrator == {"update_state_root", "calculate_tx_and_event_commitments"}

\* C7: an orchestrator call forks exactly two closures; while one of them
\* has not completed nothing is returned and no state root is computed.
C7_ResultOnlyAfterBothComplete ==
    call \in Orchestrator
       => /\ Cardinality(DOMAIN jobs) = 2
          /\ ~Joined(jobs) => (pc = "join" /\ ret = None /\ hash_calls = << >>)

C7_Witness ==
    /\ Returned("update_state_root")
    /\ Joined(jobs)
    /\ Len(hash_calls) = 1

\* An element of the raw state update that the aggregation narrows does not
\* fit its domain type.
NarrowingFails(su) ==
    \/ \E i \in 1..Len(su.deployed_contracts) :
          LET e == su.deployed_contracts[i]
          IN  \/ ~Fits("ContractAddress", e.address)
              \/ e.address # FieldElement_ZERO /\ ~Fits("ClassHash", e.class_hash)
    \/ \E i \in 1..Len(su.replaced_classes) :
          LET e == su.replaced_classes[i]
          IN  ~Fits("ContractAddress", e.contract_address) \/ ~Fits("ClassHash", e.class_hash)
    \/ \E i \in 1..Len(su.declared_classes) :
          LET e == su.declared_classes[i]
          IN  ~Fits("ClassHash", e.class_hash)
              \/ ~Fits("CompiledClassHash", e.compiled_class_hash)
    \/ \E i \in 1..Len(su.nonces) :
          LET e == su.nonces[i]
          IN  ~Fits("ContractAddress", e.contract_address) \/ ~Fits("Nonce", e.nonce)
    \/ \E i \in 1..Len(su.storage_diffs) :
          LET g == su.storage_diffs[i]
          IN  \/ ~Fits("ContractAddress", g.address)
              \/ \E n \in 1..Len(g.storage_entries) :
                    \/ ~Fits("StorageKey", g.storage_entries[n].key)
                    \/ ~Fits("StarkFelt", g.storage_entries[n].value)

\* C8: once the narrowing of an element of the raw state update has failed,
\* build_commitment_state_diff has ended in a panic and returns no diff.
C8_NarrowingFailureReturnsNoDiff ==
    (call = "build_commitment_state_diff" /\ NarrowingFails(state_update))
       => (pc = "panicked" /\ ret = None)

C8_Witness ==
    /\ call = "build_commitment_state_diff"
    /\ pc = "panicked"
    /\ commitment_state_diff.address_to_class_hash # << >>
    /\ \E i \in 1..Len(state_update.storage_diffs) :
          \E n \in 1..Len(state_update.storage_diffs[i].storage_entries) :
             ~Fits("StorageKey", state_update.storage_diffs[i].storage_entries[n].key)

BuildFails ==
    \/ ~IsOk(memory_transaction_commitment(args.transactions, args.chain_id,
                                           args.block_number))
    \/ ~IsOk(memory_event_commitment(args.events))

\* C9: when the transaction build or the event build fails,
\* calculate_tx_and_event_commitments returns no pair, and once both
\* closures are through the call has ended in a panic.
C9_NoPartialPair ==
    (call = "calculate_tx_and_event_commitments" /\ BuildFails)
       => (ret = None /\ pc \in {"join", "panicked"})

C9_Witness ==
    /\ call = "calculate_tx_and_event_commitments"
    /\ IsOk(memory_transaction_commitment(args.transactions, args.chain_id,
                                          args.block_number))
    /\ ~IsOk(memory_event_commitment(args.events))
    /\ pc = "panicked"
    /\ panic_msg = Some("Failed to calculate event commitment")

\* C10: every address of the replaced classes is mapped, in the returned
\* diff, to the class hash of its last replaced-classes entry, also when the
\* address is deployed in the same update and also when it is zero.
C10_ReplacedClassHashKept ==
    Returned("build_commitment_state_diff")
       => \A i \in 1..Len(state_update.replaced_classes) :
             LET address == state_update.replaced_classes[i].contract_address
                 ForAddress(e) == e.contract_address = address
                 last == state_update.replaced_classes[
                             LastIndex(state_update.replaced_classes, ForAddress)]
                 key == FromFieldElement("ContractAddress", address)
             IN  /\ key \in IndexMapKeys(ret[1].address_to_class_hash)
                 /\ AsFunction(ret[1].address_to_class_hash)[key]
                       = FromFieldElement("ClassHash", last.class_hash)

C10_Witness ==
    /\ Returned("build_commitment_state_diff")
    /\ DeployedZero(state_update)
    /\ \E i \in 1..Len(state_update.replaced_classes) :
          /\ state_update.replaced_classes[i].contract_address = FieldElement_ZERO
          /\ state_update.replaced_classes[i].class_hash # FieldElement_ZERO
    /\ AsFunction(ret[1].address_to_class_hash)[ZeroAddress] # ZeroClassHash
====
